---- MODULE Spec2Model ----
(***************************************************************************)
(* Model of src/second-test.ts: the invoice settlement run               *)
(* (secondTestMain): fetch of the pending invoices, per-organization      *)
(* currency normalization, credit-note allocation over the payments of    *)
(* each received invoice, and the sequential submission of the payments.  *)
(***************************************************************************)
EXTENDS Integers, Sequences, FiniteSets, TLC

(* ---------------------------------------------------------------------- *)
(* Bounds of the explored inputs                                          *)
(* ---------------------------------------------------------------------- *)
MaxPayments == 3
MaxAmount == 2
MaxCredit == 4
MaxConv == 3

(* ---------------------------------------------------------------------- *)
(* Program constants                                                      *)
(* ---------------------------------------------------------------------- *)
dollarInCLP == 800

\* organization ids, listed in the order of S.Ord (string order)
Orgs == <<"O1", "O2">>
Currencies == {"USD", "CLP", "EUR"}
Statuses == {"paid", "pending"}
NoRef == "undefined"

(* ---------------------------------------------------------------------- *)
(* Sequence helpers                                                       *)
(* ---------------------------------------------------------------------- *)
Range(s) == {s[i] : i \in 1..Len(s)}

Reverse(s) == [i \in 1..Len(s) |-> s[Len(s) + 1 - i]]

RECURSIVE Flatten(_)
Flatten(ss) == IF ss = <<>> THEN <<>> ELSE Head(ss) \o Flatten(Tail(ss))

RECURSIVE SumAmounts(_)
SumAmounts(s) == IF s = <<>> THEN 0 ELSE Head(s).amount + SumAmounts(Tail(s))

\* Math.round of the rational num/den (den > 0): floor(x + 1/2)
MathRound(num, den) == (2 * num + den) \div (2 * den)

(* ---------------------------------------------------------------------- *)
(* Data                                                                   *)
(* ---------------------------------------------------------------------- *)
Payment(id, amount, status) == [id |-> id, amount |-> amount, status |-> status]

\* payments is t.union([t.array(Payment), t.undefined]): hasPayments is
\* FALSE for undefined, and then payments is <<>>
Invoice(id, amount, org, currency, type, reference, hasPayments, payments) ==
    [id |-> id, amount |-> amount, organization_id |-> org,
     currency |-> currency, type |-> type, reference |-> reference,
     hasPayments |-> hasPayments, payments |-> payments]

(* ---------------------------------------------------------------------- *)
(* Currency normalization                                                 *)
(* ---------------------------------------------------------------------- *)
\* factor is the rational factor[1]/factor[2] (800 or 1/800)
normalizePayment(payment, factor) ==
    [payment EXCEPT !.amount = MathRound(payment.amount * factor[1], factor[2])]

MapPayments(payments, factor) ==
    [i \in 1..Len(payments) |-> normalizePayment(payments[i], factor)]

\* variant: the "USD" case relabels the invoice but leaves its amount
normalizeInvoiceKeepAmount(inv, currency) ==
    IF currency = inv.currency THEN inv
    ELSE IF currency = "CLP" THEN
        [inv EXCEPT !.amount = inv.amount * dollarInCLP,
                    !.payments = IF inv.hasPayments
                                 THEN MapPayments(inv.payments, <<dollarInCLP, 1>>)
                                 ELSE <<>>,
                    !.currency = "CLP"]
    ELSE IF currency = "USD" THEN
        [inv EXCEPT !.payments = IF inv.hasPayments
                                 THEN MapPayments(inv.payments, <<1, dollarInCLP>>)
                                 ELSE <<>>,
                    !.currency = "USD"]
    ELSE inv

normalizeInvoice(inv, currency) ==
    IF currency = inv.currency THEN inv
    ELSE IF currency = "CLP" THEN
        [inv EXCEPT !.amount = inv.amount * dollarInCLP,
                    !.payments = IF inv.hasPayments
                                 THEN MapPayments(inv.payments, <<dollarInCLP, 1>>)
                                 ELSE <<>>,
                    !.currency = "CLP"]
    ELSE IF currency = "USD" THEN
        [inv EXCEPT !.amount = MathRound(inv.amount, dollarInCLP),
                    !.payments = IF inv.hasPayments
                                 THEN MapPayments(inv.payments, <<1, dollarInCLP>>)
                                 ELSE <<>>,
                    !.currency = "USD"]
    ELSE inv

normalizeOrgCurrency(orgBatch) ==
    [i \in 1..Len(orgBatch.invoices) |->
        normalizeInvoice(orgBatch.invoices[i], orgBatch.orgCurrency)]

\* NEA.groupBy(inv => inv.organization_id): the invoices of one organization,
\* in input order
GroupOf(invs, org) == SelectSeq(invs, LAMBDA inv : inv.organization_id = org)

\* variant: one key per invoice instead of one per group
groupKeysPerInvoice(invs) == [i \in 1..Len(invs) |-> invs[i].organization_id]

\* keys of the grouped record as R.collect(S.Ord) visits them
groupKeys(invs) ==
    SelectSeq(Orgs, LAMBDA o : \E i \in 1..Len(invs) : invs[i].organization_id = o)

(* ---------------------------------------------------------------------- *)
(* Credit allocation                                                      *)
(* ---------------------------------------------------------------------- *)
Task(paymentId, amountToPay) == [paymentId |-> paymentId, amountToPay |-> amountToPay]

\* variant: the partial branch does not reset the remaining credit
reduceStepKeepCredit(amountToReduce, payment) ==
    IF payment.status = "paid" THEN
        [acc |-> amountToReduce, push |-> <<>>]
    ELSE IF amountToReduce >= payment.amount THEN
        [acc |-> amountToReduce - payment.amount,
         push |-> <<Task(payment.id, 0)>>]
    ELSE
        [acc |-> amountToReduce,
         push |-> <<Task(payment.id, payment.amount - amountToReduce)>>]

\* variant: no test of the payment's status
reduceStepNoPaidCheck(amountToReduce, payment) ==
    IF amountToReduce >= payment.amount THEN
        [acc |-> amountToReduce - payment.amount,
         push |-> <<Task(payment.id, 0)>>]
    ELSE
        [acc |-> 0,
         push |-> <<Task(payment.id, payment.amount - amountToReduce)>>]

\* variant: no branch for a payment the credit covers
reduceStepNoCover(amountToReduce, payment) ==
    IF payment.status = "paid" THEN
        [acc |-> amountToReduce, push |-> <<>>]
    ELSE
        [acc |-> 0,
         push |-> <<Task(payment.id, payment.amount - amountToReduce)>>]

\* the reduce callback of processPayments: the next accumulator and the
\* tasks it pushes
reduceStep(amountToReduce, payment) ==
    IF payment.status = "paid" THEN
        [acc |-> amountToReduce, push |-> <<>>]
    ELSE IF amountToReduce >= payment.amount THEN
        [acc |-> amountToReduce - payment.amount,
         push |-> <<Task(payment.id, 0)>>]
    ELSE
        [acc |-> 0,
         push |-> <<Task(payment.id, payment.amount - amountToReduce)>>]

RECURSIVE reduceFrom(_, _)
reduceFrom(ps, amountToReduce) ==
    IF ps = <<>> THEN <<>>
    ELSE LET r == reduceStep(amountToReduce, Head(ps))
         IN  r.push \o reduceFrom(Tail(ps), r.acc)

\* variant: the payments are visited in input order
visitOrderInput(payments) == payments

\* the order in which processPayments visits the payments
visitOrder(payments) == Reverse(payments)

processPayments(payments, toReduce) == reduceFrom(visitOrder(payments), toReduce)

\* creditNotes.filter(cn => cn.reference === inv.id)
cnForInvoice(creditNotes, inv) ==
    SelectSeq(creditNotes, LAMBDA cn : cn.reference = inv.id)

\* variant: every credit note counts, whatever its reference
creditForAny(creditNotes, inv) == SumAmounts(creditNotes)

creditFor(creditNotes, inv) == SumAmounts(cnForInvoice(creditNotes, inv))

(* ---------------------------------------------------------------------- *)
(* Input batches: what the invoices endpoint may serve                    *)
(* ---------------------------------------------------------------------- *)
PaymentIds == <<"p1", "p2", "p3", "p4", "p5", "p6">>

PaymentChoices == (0..MaxAmount) \X Statuses

PaymentLists ==
    UNION {{[i \in 1..k |-> Payment(PaymentIds[i], f[i][1], f[i][2])] :
                f \in [1..k -> PaymentChoices]} : k \in 0..MaxPayments}

\* one received invoice with an arbitrary payment list and one credit note
\* for it
AllocBatches ==
    {<<Invoice("I1", 0, "O1", "USD", "received", NoRef, TRUE, pl),
       Invoice("N1", c, "O1", "USD", "credit_note", "I1", FALSE, <<>>)>> :
        pl \in PaymentLists, c \in 0..MaxCredit}

ConvAmounts ==
    UNION {{k, 400 * k, 400 * k + 1, 800 * k + 399} : k \in 0..MaxConv}

\* one invoice of any currency, with or without a payment
ConvBatches ==
    {<<Invoice("I1", a, "O1", cur, "received", NoRef, hp,
               IF hp THEN <<Payment("p1", b, "pending")>> ELSE <<>>)>> :
        a \in ConvAmounts, b \in ConvAmounts, cur \in Currencies,
        hp \in BOOLEAN}

\* two organizations, three received invoices and two credit notes
RunBatches ==
    {<<Invoice("I1", 5, "O1", cur1, "received", NoRef, TRUE,
               <<Payment("p1", a1, "pending"), Payment("p2", 1, s2)>>),
       Invoice("N1", c1, oN, cur1, "credit_note", r1, FALSE, <<>>),
       Invoice("I2", 3, "O2", cur2, "received", NoRef, TRUE,
               <<Payment("p3", 1, "pending")>>),
       Invoice("N2", 1, "O2", cur2, "credit_note", r2, FALSE, <<>>),
       Invoice("I3", 2, "O1", cur1, "received", NoRef, FALSE, <<>>)>> :
        cur1 \in {"USD", "CLP"}, cur2 \in {"USD", "CLP"},
        a1 \in 0..MaxAmount, s2 \in Statuses, oN \in Range(Orgs),
        c1 \in {0, 1, MaxCredit}, r1 \in {"I1", "I2", "I9"},
        r2 \in {"I2", NoRef}}

\* payments a (200) and b (300), both pending, with a credit of 250
ScenarioAB ==
    <<Invoice("I1", 500, "O1", "USD", "received", NoRef, TRUE,
              <<Payment("a", 200, "pending"), Payment("b", 300, "pending")>>),
      Invoice("N1", 250, "O1", "USD", "credit_note", "I1", FALSE, <<>>)>>

\* a USD invoice with a pending and a paid payment and a credit note of 30
ScenarioPaid ==
    <<Invoice("I1", 150, "O1", "USD", "received", NoRef, TRUE,
              <<Payment("p1", 100, "pending"), Payment("p2", 50, "paid")>>),
      Invoice("C1", 30, "O1", "USD", "credit_note", "I1", FALSE, <<>>)>>

ServedBatches ==
    AllocBatches \cup ConvBatches \cup RunBatches
        \cup {ScenarioAB, ScenarioPaid, <<>>}

(* ---------------------------------------------------------------------- *)
(* State of one run of secondTestMain                                     *)
(* ---------------------------------------------------------------------- *)
VARIABLES
    server,          \* the batch the invoices endpoint serves
    pc,              \* "start", "normalizing", "paying", "done"
    outcome,         \* how the run ended ("" while running)
    invoices,        \* the decoded batch (parseSchema(invs, Invoices))
    orgQueue,        \* organizations whose lookup task has not run yet
    lookupInFlight,  \* organization of the pending settings GET, or "none"
    lookupLog,       \* organizations whose settings GET was issued, in order
    lookupDone,      \* result of each completed GET: a currency or "error"
    batches,         \* normalized groups collected by A.sequence so far
    normalized,      \* fetchedData.right
    alloc,           \* per received invoice: toReduce and processPayments' tasks
    tasks,           \* A.flatten of the tasks, the chain that is run
    nextTask,        \* index of the next task of the chain
    payInFlight,     \* index of the task whose POST is pending, or 0
    payLog,          \* tasks whose POST was issued, in order
    results          \* outcome of each completed POST: "paid" or a failure

vars == <<server, pc, outcome, invoices, orgQueue, lookupInFlight, lookupLog,
          lookupDone, batches, normalized, alloc, tasks, nextTask,
          payInFlight, payLog, results>>

normVars == <<orgQueue, lookupInFlight, lookupLog, lookupDone, batches>>
payVars == <<normalized, alloc, tasks, nextTask, payInFlight, payLog, results>>

LookupResponses == Currencies \cup {"error"}
PaymentResponses == {"paid", "rejected", "error"}

Init ==
    /\ server \in ServedBatches
    /\ pc = "start"
    /\ outcome = ""
    /\ invoices = <<>>
    /\ orgQueue = <<>>
    /\ lookupInFlight = "none"
    /\ lookupLog = <<>>
    /\ lookupDone = <<>>
    /\ batches = <<>>
    /\ normalized = <<>>
    /\ alloc = <<>>
    /\ tasks = <<>>
    /\ nextTask = 1
    /\ payInFlight = 0
    /\ payLog = <<>>
    /\ results = <<>>

\* fetchAPI, getResponseAsJson, parseSchema of the invoices; on success
\* normalizeInvoicesCurrency groups the invoices and builds one lookup task
\* per group
FetchInvoices ==
    /\ pc = "start"
    /\ \E ok \in BOOLEAN :
        IF ok
        THEN /\ invoices' = server
             /\ orgQueue' = groupKeys(server)
             /\ pc' = "normalizing"
             /\ outcome' = outcome
        ELSE /\ pc' = "done"
             /\ outcome' = "fetchError"
             /\ UNCHANGED <<invoices, orgQueue>>
    /\ UNCHANGED <<server, lookupInFlight, lookupLog, lookupDone, batches>>
    /\ UNCHANGED payVars

\* A.sequence(TE.ApplicativeSeq) runs the next getOrganizationCurrency task
LookupStart ==
    /\ pc = "normalizing"
    /\ lookupInFlight = "none"
    /\ orgQueue # <<>>
    /\ lookupInFlight' = Head(orgQueue)
    /\ lookupLog' = Append(lookupLog, Head(orgQueue))
    /\ orgQueue' = Tail(orgQueue)
    /\ UNCHANGED <<server, pc, outcome, invoices, lookupDone, batches>>
    /\ UNCHANGED payVars

\* variant: a failed lookup passes the group through and the run goes on
LookupCompleteFailSoft ==
    /\ pc = "normalizing"
    /\ lookupInFlight # "none"
    /\ \E r \in LookupResponses :
        /\ lookupDone' = Append(lookupDone, r)
        /\ batches' = Append(batches,
                IF r = "error"
                THEN GroupOf(invoices, lookupInFlight)
                ELSE normalizeOrgCurrency(
                        [orgCurrency |-> r,
                         invoices |-> GroupOf(invoices, lookupInFlight)]))
        /\ UNCHANGED <<pc, outcome>>
    /\ lookupInFlight' = "none"
    /\ UNCHANGED <<server, invoices, orgQueue, lookupLog>>
    /\ UNCHANGED payVars

\* the settings GET completes: a Left ends getData, a Right is mapped
\* through normalizeOrgCurrency and collected
LookupComplete ==
    /\ pc = "normalizing"
    /\ lookupInFlight # "none"
    /\ \E r \in LookupResponses :
        /\ lookupDone' = Append(lookupDone, r)
        /\ IF r = "error"
           THEN /\ pc' = "done"
                /\ outcome' = "lookupError"
                /\ batches' = batches
           ELSE /\ batches' = Append(batches,
                    normalizeOrgCurrency(
                        [orgCurrency |-> r,
                         invoices |-> GroupOf(invoices, lookupInFlight)]))
                /\ UNCHANGED <<pc, outcome>>
    /\ lookupInFlight' = "none"
    /\ UNCHANGED <<server, invoices, orgQueue, lookupLog>>
    /\ UNCHANGED payVars

creditNotesOf(invs) == SelectSeq(invs, LAMBDA inv : inv.type = "credit_note")

receivedInvsOf(invs) ==
    SelectSeq(invs, LAMBDA inv : inv.type = "received" /\ inv.hasPayments)

\* the A.map of payInvoices: toReduce and the tasks of each received invoice
allocate(invs) ==
    LET creditNotes == creditNotesOf(invs)
        receivedInvs == receivedInvsOf(invs)
    IN  [i \in 1..Len(receivedInvs) |->
            LET inv == receivedInvs[i]
                toReduce == creditFor(creditNotes, inv)
            IN  [invoice |-> inv.id,
                 toReduce |-> toReduce,
                 tasks |-> processPayments(inv.payments, toReduce)]]

\* getData resolved Right: partition, allocation and construction of the
\* payInvoices chain
SettleInvoices ==
    /\ pc = "normalizing"
    /\ lookupInFlight = "none"
    /\ orgQueue = <<>>
    /\ normalized' = Flatten(batches)
    /\ alloc' = allocate(Flatten(batches))
    /\ tasks' = Flatten([i \in 1..Len(allocate(Flatten(batches))) |->
                            allocate(Flatten(batches))[i].tasks])
    /\ pc' = "paying"
    /\ UNCHANGED <<server, outcome, invoices, nextTask, payInFlight, payLog,
                   results>>
    /\ UNCHANGED normVars

\* the chain runs its next payPayment task: the POST is sent
PayStart ==
    /\ pc = "paying"
    /\ payInFlight = 0
    /\ nextTask <= Len(tasks)
    /\ payInFlight' = nextTask
    /\ payLog' = Append(payLog, tasks[nextTask])
    /\ UNCHANGED <<server, pc, outcome, invoices, normalized, alloc, tasks,
                   nextTask, results>>
    /\ UNCHANGED normVars

\* variant: a failed submission does not end the chain
PayCompleteContinue ==
    /\ pc = "paying"
    /\ payInFlight # 0
    /\ \E r \in PaymentResponses :
        /\ results' = Append(results, r)
        /\ nextTask' = nextTask + 1
        /\ UNCHANGED <<pc, outcome>>
    /\ payInFlight' = 0
    /\ UNCHANGED <<server, invoices, normalized, alloc, tasks, payLog>>
    /\ UNCHANGED normVars

\* the POST completes; anything but a decoded status "paid" is a Left that
\* ends the chain
PayComplete ==
    /\ pc = "paying"
    /\ payInFlight # 0
    /\ \E r \in PaymentResponses :
        /\ results' = Append(results, r)
        /\ IF r = "paid"
           THEN /\ nextTask' = nextTask + 1
                /\ UNCHANGED <<pc, outcome>>
           ELSE /\ pc' = "done"
                /\ outcome' = "payError"
                /\ nextTask' = nextTask
    /\ payInFlight' = 0
    /\ UNCHANGED <<server, invoices, normalized, alloc, tasks, payLog>>
    /\ UNCHANGED normVars

\* every task of the chain returned Right
Finish ==
    /\ pc = "paying"
    /\ payInFlight = 0
    /\ nextTask > Len(tasks)
    /\ pc' = "done"
    /\ outcome' = "ok"
    /\ UNCHANGED <<server, invoices, normalized, alloc, tasks, nextTask,
                   payInFlight, payLog, results>>
    /\ UNCHANGED normVars

Next ==
    \/ FetchInvoices
    \/ LookupStart
    \/ LookupComplete
    \/ SettleInvoices
    \/ PayStart
    \/ PayComplete
    \/ Finish

Spec == Init /\ [][Next]_vars

(* ---------------------------------------------------------------------- *)
(* Properties                                                             *)
(* ---------------------------------------------------------------------- *)
Min(a, b) == IF a <= b THEN a ELSE b

Abs(a) == IF a >= 0 THEN a ELSE 0 - a

RECURSIVE SumToPay(_)
SumToPay(ts) == IF ts = <<>> THEN 0 ELSE Head(ts).amountToPay + SumToPay(Tail(ts))

NonPaid(payments) == SelectSeq(payments, LAMBDA pm : pm.status # "paid")

\* the normalized invoice an entry of alloc was computed from
InvoiceOf(entry) == CHOOSE inv \in Range(normalized) : inv.id = entry.invoice

\* getData resolved Right and the allocation was computed
Settled == pc = "paying" \/ outcome \in {"ok", "payError"}

\* sum of the amounts of s up to index k
RECURSIVE Prefix(_, _)
Prefix(s, k) == IF k = 0 THEN 0 ELSE s[k].amount + Prefix(s, k - 1)

RECURSIVE SumAt(_, _)
SumAt(s, idx) ==
    IF idx = {} THEN 0
    ELSE LET k == CHOOSE k \in idx : TRUE
         IN  s[k].amount + SumAt(s, idx \ {k})

\* C1: allocation conserves mass: for every received invoice, the amounts to
\* pay of its instructions sum to P - min(C, P), where P is the sum of the
\* amounts of its non-paid payments and C the credit given to processPayments
C1_ConservesMass ==
    \A i \in 1..Len(alloc) :
        LET P == SumAmounts(NonPaid(InvoiceOf(alloc[i]).payments))
            C == alloc[i].toReduce
        IN  SumToPay(alloc[i].tasks) = P - Min(C, P)

\* a credit that covers part of the pending amount of several payments,
\* next to a paid payment
C1_Witness ==
    /\ Settled
    /\ \E i \in 1..Len(alloc) :
        LET pms == InvoiceOf(alloc[i]).payments
        IN  /\ alloc[i].toReduce > 0
            /\ alloc[i].toReduce < SumAmounts(NonPaid(pms))
            /\ Len(alloc[i].tasks) >= 2
            /\ Len(NonPaid(pms)) < Len(pms)

\* C2: paid payments are untouched: exactly one instruction per non-paid
\* payment, none for a paid payment, and the instructions are those computed
\* for the payment list without its paid payments
C2_PaidUntouched ==
    \A i \in 1..Len(alloc) :
        LET pms == InvoiceOf(alloc[i]).payments
            ts == alloc[i].tasks
        IN  /\ Len(ts) = Len(NonPaid(pms))
            /\ {ts[k].paymentId : k \in 1..Len(ts)}
                   = {pm.id : pm \in Range(NonPaid(pms))}
            /\ ts = processPayments(NonPaid(pms), alloc[i].toReduce)

\* a paid payment with a positive amount stands between pending payments
\* and the credit is positive
C2_Witness ==
    /\ Settled
    /\ \E i \in 1..Len(alloc) :
        LET pms == InvoiceOf(alloc[i]).payments
        IN  /\ alloc[i].toReduce > 0
            /\ Len(pms) >= 3
            /\ \E k \in 2..(Len(pms) - 1) :
                /\ pms[k].status = "paid" /\ pms[k].amount > 0
                /\ pms[k - 1].status # "paid" /\ pms[k + 1].status # "paid"
                /\ pms[k - 1].amount > 0

\* C7: every amount to pay lies between 0 and the amount of its payment, and
\* with a credit of 0 every non-paid payment is charged its full amount
C7_Bounded ==
    \A i \in 1..Len(alloc) :
        LET pms == InvoiceOf(alloc[i]).payments
            ts == alloc[i].tasks
        IN  /\ \A k \in 1..Len(ts) :
                \E pm \in Range(pms) :
                    /\ pm.id = ts[k].paymentId
                    /\ 0 <= ts[k].amountToPay
                    /\ ts[k].amountToPay <= pm.amount
            /\ alloc[i].toReduce = 0 =>
                \A pm \in Range(NonPaid(pms)) :
                    \E k \in 1..Len(ts) :
                        /\ ts[k].paymentId = pm.id
                        /\ ts[k].amountToPay = pm.amount

\* the credit exceeds the amount of the first payment visited
C7_Witness ==
    /\ Settled
    /\ \E i \in 1..Len(alloc) :
        LET pms == InvoiceOf(alloc[i]).payments
        IN  /\ Len(pms) >= 2
            /\ pms[Len(pms)].status # "paid"
            /\ pms[Len(pms)].amount > 0
            /\ alloc[i].toReduce > pms[Len(pms)].amount
            /\ \E k \in 1..Len(alloc[i].tasks) : alloc[i].tasks[k].amountToPay > 0

\* C10: the credit is applied to the non-paid payments last payment first:
\* the k-th instruction is for the k-th non-paid payment from the end, it
\* charges 0 while the credit covers the payments so far, the rest for the
\* first payment the credit does not cover and the full amount afterwards;
\* the POSTs are issued in that order; a: 200, b: 300 with credit 250 gives
\* b 50 and a 200
C10_GreedyReverse ==
    /\ \A i \in 1..Len(alloc) :
        LET ord == Reverse(NonPaid(InvoiceOf(alloc[i]).payments))
            ts == alloc[i].tasks
            C == alloc[i].toReduce
        IN  /\ Len(ts) = Len(ord)
            /\ \A k \in 1..Len(ts) :
                /\ ts[k].paymentId = ord[k].id
                /\ ts[k].amountToPay =
                       IF Prefix(ord, k) <= C THEN 0
                       ELSE IF Prefix(ord, k - 1) <= C THEN Prefix(ord, k) - C
                       ELSE ord[k].amount
    /\ tasks = Flatten([i \in 1..Len(alloc) |-> alloc[i].tasks])
    /\ Len(payLog) <= Len(tasks)
    /\ payLog = SubSeq(tasks, 1, Len(payLog))
    /\ (Settled /\ server = ScenarioAB /\ lookupDone = <<"USD">>) =>
           tasks = <<Task("b", 50), Task("a", 200)>>

\* the a/b scenario was allocated and both POSTs were issued
C10_Witness ==
    /\ server = ScenarioAB
    /\ lookupDone = <<"USD">>
    /\ payLog = <<Task("b", 50), Task("a", 200)>>

KnownCurrencies == {"USD", "CLP"}

\* C3: a currency pair whose source or target is not USD or CLP is a
\* passthrough: every invoice of a normalized group whose own currency or
\* whose organization's currency is outside {USD, CLP} is returned unchanged
C3_Passthrough ==
    \A k \in 1..Len(batches) :
        LET grp == GroupOf(invoices, lookupLog[k])
        IN  \A i \in 1..Len(grp) :
                (grp[i].currency \notin KnownCurrencies
                    \/ lookupDone[k] \notin KnownCurrencies)
                => batches[k][i] = grp[i]

\* C4 as claimed: after a failed settings lookup the organization's invoices
\* pass through unchanged and the run goes on
C4_FailSoft ==
    \A k \in 1..Len(lookupDone) :
        lookupDone[k] = "error" =>
            /\ outcome # "lookupError"
            /\ Len(batches) >= k
            /\ batches[k] = GroupOf(invoices, lookupLog[k])

\* C4 (amended): a failed settings lookup is fatal: it is the last lookup
\* issued, no invoice is normalized and the run ends without credit
\* allocation or payment submission
C4_LookupFailureIsFatal ==
    (\E k \in 1..Len(lookupDone) : lookupDone[k] = "error") =>
        /\ pc = "done"
        /\ outcome = "lookupError"
        /\ lookupDone[Len(lookupDone)] = "error"
        /\ Len(lookupLog) = Len(lookupDone)
        /\ lookupInFlight = "none"
        /\ normalized = <<>>
        /\ alloc = <<>>
        /\ tasks = <<>>
        /\ payLog = <<>>

\* the first lookup failed while another organization was still waiting
C4_Witness ==
    /\ lookupDone = <<"error">>
    /\ orgQueue # <<>>
    /\ pc = "done"

OrgIdsOf(invs) == {invs[i].organization_id : i \in 1..Len(invs)}

\* C5: at most one settings lookup per organization of the batch, one at a
\* time (a lookup is issued only when every earlier one has completed), and
\* exactly one per organization once all of them succeeded
C5_OneLookupPerOrg ==
    /\ \A j, k \in 1..Len(lookupLog) : lookupLog[j] = lookupLog[k] => j = k
    /\ Range(lookupLog) \subseteq OrgIdsOf(invoices)
    /\ Len(lookupLog) = Len(lookupDone) + (IF lookupInFlight = "none" THEN 0 ELSE 1)
    /\ Settled =>
        /\ Range(lookupLog) = OrgIdsOf(invoices)
        /\ Len(lookupLog) = Cardinality(OrgIdsOf(invoices))

\* an organization with several invoices, and both organizations looked up
C5_Witness ==
    /\ Settled
    /\ Len(lookupLog) = 2
    /\ Len(GroupOf(invoices, "O1")) >= 2

\* C6: payment POSTs are sequential and fail-fast: at most one is pending,
\* a POST is issued only when every earlier one completed with "paid", so
\* none is issued after a failure
C6_SequentialFailFast ==
    /\ Len(payLog) = Len(results) + (IF payInFlight = 0 THEN 0 ELSE 1)
    /\ \A k \in 1..Len(payLog) :
        \A j \in 1..(k - 1) : j <= Len(results) /\ results[j] = "paid"
    /\ (\E j \in 1..Len(results) : results[j] # "paid") =>
        /\ pc = "done"
        /\ payInFlight = 0
        /\ Len(payLog) = Len(results)

\* the second POST of a chain of three or more failed
C6_Witness ==
    /\ Len(tasks) >= 3
    /\ Len(results) = 2
    /\ results[1] = "paid"
    /\ results[2] # "paid"

\* credit notes of the normalized batch that refer to the invoice id
MatchingNotes(id) ==
    {k \in 1..Len(normalized) :
        normalized[k].type = "credit_note" /\ normalized[k].reference = id}

\* C8: the credit applied to a received invoice is the sum of the normalized
\* amounts of the credit notes that refer to it (0 if none), its payments
\* are reduced by that credit only, and every received invoice with
\* payments is allocated once
C8_CreditByReference ==
    Settled =>
        /\ [i \in 1..Len(alloc) |-> alloc[i].invoice]
               = [i \in 1..Len(receivedInvsOf(normalized)) |->
                     receivedInvsOf(normalized)[i].id]
        /\ \A i \in 1..Len(alloc) :
            LET C == SumAt(normalized, MatchingNotes(alloc[i].invoice))
                P == SumAmounts(NonPaid(InvoiceOf(alloc[i]).payments))
            IN  /\ alloc[i].toReduce = C
                /\ P - SumToPay(alloc[i].tasks) = Min(C, P)

\* a credit note with a positive amount refers to no received invoice, and
\* another one leaves credit over on its invoice while a second invoice is
\* charged in full
C8_Witness ==
    /\ Settled
    /\ \E k \in 1..Len(normalized) :
        /\ normalized[k].type = "credit_note"
        /\ normalized[k].amount > 0
        /\ \A i \in 1..Len(alloc) : alloc[i].invoice # normalized[k].reference
    /\ \E i, j \in 1..Len(alloc) :
        /\ i # j
        /\ alloc[i].toReduce > SumAmounts(NonPaid(InvoiceOf(alloc[i]).payments))
        /\ alloc[j].toReduce = 0
        /\ SumToPay(alloc[j].tasks) > 0

\* C9: round trip: an invoice converted from USD to CLP by the run and
\* converted back to USD has its amount and its payments' amounts within 1
\* of the original ones
C9_RoundTrip ==
    \A inv \in Range(invoices), n \in Range(normalized) :
        (n.id = inv.id /\ inv.currency = "USD" /\ n.currency = "CLP") =>
            LET back == normalizeOrgCurrency(
                            [orgCurrency |-> "USD", invoices |-> <<n>>])[1]
            IN  /\ back.currency = "USD"
                /\ Abs(back.amount - inv.amount) <= 1
                /\ Len(back.payments) = Len(inv.payments)
                /\ \A k \in 1..Len(inv.payments) :
                    Abs(back.payments[k].amount - inv.payments[k].amount) <= 1

\* a USD invoice with a positive amount and a payment was converted to CLP
C9_Witness ==
    \E inv \in Range(invoices), n \in Range(normalized) :
        /\ n.id = inv.id /\ inv.currency = "USD" /\ n.currency = "CLP"
        /\ inv.amount > 1
        /\ n.amount = inv.amount * dollarInCLP
        /\ inv.hasPayments /\ Len(inv.payments) >= 1
        /\ inv.payments[1].amount > 1

====
